---- MODULE Spec2Model ----
(***************************************************************************)
(* Model of the AIR weather cache: the poller (scheduler.py) that fetches  *)
(* METAR/TAF data, classifies it and writes data/latest.json, and the API  *)
(* server (app.py) whose POST /weather handler reads that file.            *)
(*                                                                         *)
(* Python values are represented as follows.  A str is a sequence of       *)
(* one-character strings, so that substring tests and strptime work on the *)
(* characters.  None is the one-element tuple None below, which is no str  *)
(* because its element is not a single character.  Dictionary keys         *)
(* (airport codes) are TLA+ strings: the code only compares them.          *)
(***************************************************************************)
EXTENDS Integers, Sequences, FiniteSets, TLC

VARIABLES
    input,      \* argument handed to a pure function of scheduler.py
    called,     \* the pure functions applied to input so far
    output,     \* their return values
    pc,         \* position of the poller in the main loop / update_weather
    results,    \* update_weather's local dict, as a sequence of <<code, record>>
    file,       \* content of data/latest.json: Missing or a sequence of tokens
    completed,  \* the Snapshot of the latest poll that wrote the file completely
    request,    \* JSON body of the last POST /weather request
    response    \* the response the handler gave to it

vars == <<input, called, output, pc, results, file, completed, request, response>>

----------------------------------------------------------------------------
(* Python str and None *)

None == <<"None">>
NA == <<"N", "/", "A">>
Digits == <<"0", "1", "2", "3", "4", "5", "6", "7", "8", "9">>
DigitSet == {Digits[i] : i \in 1..10}

IsDigit(c) == c \in DigitSet
DigitVal(c) == (CHOOSE i \in 1..10 : Digits[i] = c) - 1

RECURSIVE Num(_)
Num(s) == IF s = <<>> THEN 0
          ELSE 10 * Num(SubSeq(s, 1, Len(s) - 1)) + DigitVal(s[Len(s)])

\* "%02d"
Pad2(n) == <<Digits[(n \div 10) + 1], Digits[(n % 10) + 1]>>

\* pat in text, for two str
Contains(text, pat) ==
    \E i \in 1..(Len(text) - Len(pat) + 1) :
        SubSeq(text, i, i + Len(pat) - 1) = pat

----------------------------------------------------------------------------
(* scheduler.py: classify *)

TypeError == <<"TypeError">>
VFR == <<"V", "F", "R">>
MVFR == <<"M", "V", "F", "R">>
IFR == <<"I", "F", "R">>
LIFR == <<"L", "I", "F", "R">>
OVC == <<"O", "V", "C">>
BKN == <<"B", "K", "N">>
T002 == <<"0", "0", "2">>
T004 == <<"0", "0", "4">>
T005 == <<"0", "0", "5">>
T010 == <<"0", "1", "0">>
T020 == <<"0", "2", "0">>
T030 == <<"0", "3", "0">>

\* a plausible slip: the 010 test placed before the 002/004/005 test
classify_ifr_first(text) ==
    IF text = None THEN TypeError
    ELSE IF Contains(text, OVC) \/ Contains(text, BKN)
    THEN IF Contains(text, T010) THEN IFR
         ELSE IF \E x \in {T002, T004, T005} : Contains(text, x) THEN LIFR
         ELSE IF Contains(text, T020) \/ Contains(text, T030) THEN MVFR
         ELSE VFR
    ELSE VFR

\* a plausible slip: a guard that turns a missing text into VFR
classify_none_vfr(text) ==
    IF text = None THEN VFR
    ELSE IF Contains(text, OVC) \/ Contains(text, BKN)
    THEN IF \E x \in {T002, T004, T005} : Contains(text, x) THEN LIFR
         ELSE IF Contains(text, T010) THEN IFR
         ELSE IF Contains(text, T020) \/ Contains(text, T030) THEN MVFR
         ELSE VFR
    ELSE VFR

\* `"OVC" in None` raises TypeError, which classify does not catch
classify(text) ==
    IF text = None THEN TypeError
    ELSE IF Contains(text, OVC) \/ Contains(text, BKN)
    THEN IF \E x \in {T002, T004, T005} : Contains(text, x) THEN LIFR
         ELSE IF Contains(text, T010) THEN IFR
         ELSE IF Contains(text, T020) \/ Contains(text, T030) THEN MVFR
         ELSE VFR
    ELSE VFR

----------------------------------------------------------------------------
(* scheduler.py: datetime.strptime(dtstr, "%Y-%m-%dT%H:%M:%SZ"), strftime  *)
(* and timedelta arithmetic, as to_zulu, next_hour and next_taf_time use   *)
(* them.  strptime compiles the format to the regular expression           *)
(*   (\d\d\d\d)-(1[0-2]|0[1-9]|[1-9])-(3[0-1]|[1-2]\d|0[1-9]|[1-9]| [1-9]) *)
(*   T(2[0-3]|[0-1]\d|\d):([0-5]\d|\d):(6[0-1]|[0-5]\d|\d)Z                *)
(* matched ignoring case against the whole string.                         *)

In(c, lo, hi) == IsDigit(c) /\ DigitVal(c) >= lo /\ DigitVal(c) <= hi

ReY(p) == Len(p) = 4 /\ \A i \in 1..4 : IsDigit(p[i])
Rem(p) == \/ Len(p) = 2 /\ p[1] = "1" /\ In(p[2], 0, 2)
          \/ Len(p) = 2 /\ p[1] = "0" /\ In(p[2], 1, 9)
          \/ Len(p) = 1 /\ In(p[1], 1, 9)
Red(p) == \/ Len(p) = 2 /\ p[1] = "3" /\ In(p[2], 0, 1)
          \/ Len(p) = 2 /\ In(p[1], 1, 2) /\ IsDigit(p[2])
          \/ Len(p) = 2 /\ p[1] = "0" /\ In(p[2], 1, 9)
          \/ Len(p) = 1 /\ In(p[1], 1, 9)
          \/ Len(p) = 2 /\ p[1] = " " /\ In(p[2], 1, 9)
ReH(p) == \/ Len(p) = 2 /\ p[1] = "2" /\ In(p[2], 0, 3)
          \/ Len(p) = 2 /\ In(p[1], 0, 1) /\ IsDigit(p[2])
          \/ Len(p) = 1 /\ IsDigit(p[1])
ReM(p) == \/ Len(p) = 2 /\ In(p[1], 0, 5) /\ IsDigit(p[2])
          \/ Len(p) = 1 /\ IsDigit(p[1])
ReS(p) == \/ Len(p) = 2 /\ p[1] = "6" /\ In(p[2], 0, 1)
          \/ Len(p) = 2 /\ In(p[1], 0, 5) /\ IsDigit(p[2])
          \/ Len(p) = 1 /\ IsDigit(p[1])

\* value of a matched field; the day may carry a leading blank
FieldNum(p) == IF p[1] = " " THEN Num(Tail(p)) ELSE Num(p)

\* the pieces of s when the five variable-width fields have widths w[1..5]
PiecesAt(s, m0, d0, h0, i0, s0, z0) ==
    [Y |-> SubSeq(s, 1, 4),       sepYm |-> s[5],
     m |-> SubSeq(s, m0, d0 - 2), sepmd |-> s[d0 - 1],
     d |-> SubSeq(s, d0, h0 - 2), sepdH |-> s[h0 - 1],
     H |-> SubSeq(s, h0, i0 - 2), sepHM |-> s[i0 - 1],
     M |-> SubSeq(s, i0, s0 - 2), sepMS |-> s[s0 - 1],
     S |-> SubSeq(s, s0, z0 - 1), z |-> s[z0]]

Pieces(s, w) ==
    PiecesAt(s, 6, 7 + w[1], 8 + w[1] + w[2], 9 + w[1] + w[2] + w[3],
             10 + w[1] + w[2] + w[3] + w[4], 10 + w[1] + w[2] + w[3] + w[4] + w[5])

PiecesMatch(p) ==
    /\ ReY(p.Y) /\ p.sepYm = "-"
    /\ Rem(p.m) /\ p.sepmd = "-"
    /\ Red(p.d) /\ p.sepdH \in {"T", "t"}
    /\ ReH(p.H) /\ p.sepHM = ":"
    /\ ReM(p.M) /\ p.sepMS = ":"
    /\ ReS(p.S) /\ p.z \in {"Z", "z"}

ReMatch(s, w) ==
    /\ Len(s) = 10 + w[1] + w[2] + w[3] + w[4] + w[5]
    /\ PiecesMatch(Pieces(s, w))

IsLeap(y) == (y % 4 = 0) /\ ((y % 100 # 0) \/ (y % 400 = 0))
DaysInMonth(y, m) ==
    IF m = 2 THEN (IF IsLeap(y) THEN 29 ELSE 28)
    ELSE IF m \in {4, 6, 9, 11} THEN 30 ELSE 31

Failed == [ok |-> FALSE]

\* datetime(year, month, day, hour, minute, second): ValueError outside its ranges
datetime(y, m, d, H, M, S) ==
    IF y >= 1 /\ y <= 9999 /\ m >= 1 /\ m <= 12 /\ d >= 1 /\ d <= DaysInMonth(y, m)
       /\ H >= 0 /\ H <= 23 /\ M >= 0 /\ M <= 59 /\ S >= 0 /\ S <= 59
    THEN [ok |-> TRUE, year |-> y, month |-> m, day |-> d,
          hour |-> H, minute |-> M, second |-> S]
    ELSE Failed

\* the datetime of the matched fields
FromPieces(p) ==
    datetime(Num(p.Y), Num(p.m), FieldNum(p.d), Num(p.H), Num(p.M), Num(p.S))

FromMatches(dtstr, ws) ==
    IF ws = {} THEN Failed ELSE FromPieces(Pieces(dtstr, CHOOSE w \in ws : TRUE))

\* TypeError for a non-str, ValueError for no match or an impossible date
strptime(dtstr) ==
    IF dtstr = None THEN Failed
    ELSE FromMatches(dtstr, {w \in [1..5 -> 1..2] : ReMatch(dtstr, w)})

\* dt.strftime("%H:%M")
strftime(dt) == Pad2(dt.hour) \o <<":">> \o Pad2(dt.minute)

\* dt + timedelta(hours=n) for 0 <= n <= 24: OverflowError past year 9999
RollYear(dt, h, d, y) ==
    IF y > 9999 THEN Failed
    ELSE [dt EXCEPT !.hour = h, !.day = d, !.month = 1, !.year = y]

RollMonth(dt, h, d, m) ==
    IF m > 12 THEN RollYear(dt, h, d, dt.year + 1)
    ELSE [dt EXCEPT !.hour = h, !.day = d, !.month = m]

RollDay(dt, h, d) ==
    IF d > DaysInMonth(dt.year, dt.month)
    THEN RollMonth(dt, h, d - DaysInMonth(dt.year, dt.month), dt.month + 1)
    ELSE [dt EXCEPT !.hour = h, !.day = d]

add_hours(dt, n) == RollDay(dt, (dt.hour + n) % 24, dt.day + ((dt.hour + n) \div 24))

\* the try block's result, or the except block's "N/A"
Formatted(dt) == IF dt.ok THEN strftime(dt) ELSE NA

to_zulu(dtstr) == Formatted(strptime(dtstr))

PlusHour(dt) == IF dt.ok THEN Formatted(add_hours(dt, 1)) ELSE NA

next_hour(dtstr) == PlusHour(strptime(dtstr))

\* dt.replace(hour=hour, minute=0) + timedelta(hours=(6 if hour <= dt.hour else 0))
TafShift(dt, hour) ==
    add_hours([dt EXCEPT !.hour = hour, !.minute = 0], IF hour <= dt.hour THEN 6 ELSE 0)

TafBoundary(dt) ==
    IF dt.ok THEN Formatted(TafShift(dt, (((dt.hour \div 6) + 1) * 6) % 24)) ELSE NA

next_taf_time(dtstr) == TafBoundary(strptime(dtstr))

----------------------------------------------------------------------------
(* scheduler.py: fetch, the XML extraction and the record of one code.     *)
(* A response text is abstracted to what ET.fromstring and root.find see   *)
(* of it: whether it is well-formed XML and, for each of the two tags, the *)
(* text of the first such element below the root: Absent when there is no  *)
(* such element, None when the element is empty (ElementTree's .text).     *)

ICAO_CODES == <<"CYYZ", "CYUL", "CYHZ">>

Absent == <<"Absent">>
Doc(raw, issue) == [wf |-> TRUE, raw_text |-> raw, issue_time |-> issue]
NotXml == [wf |-> FALSE, raw_text |-> Absent, issue_time |-> Absent]

\* outcomes of requests.get(url, params, timeout=10)
NetError == [kind |-> "error", text |-> NotXml]
Timeout == [kind |-> "timeout", text |-> NotXml]
Reply(text) == [kind |-> "reply", text |-> text]

\* res.text, or "" when requests.get raised; "" is not well-formed XML
fetch(outcome) == IF outcome.kind = "reply" THEN outcome.text ELSE NotXml

\* ParseError and the AttributeError of None.text are caught; an empty
\* element is found and its .text, None, is returned
TextOf(el) == IF el = Absent THEN NA ELSE el

extract_value(xml, tag) ==
    IF ~xml.wf THEN NA
    ELSE TextOf(IF tag = "raw_text" THEN xml.raw_text ELSE xml.issue_time)

extract_metar_text(xml) == extract_value(xml, "raw_text")

Fields == {"category", "metar", "metar_time", "next_metar", "taf_time", "next_taf"}

\* lines 74-87: the body of the loop for one code; raised when classify raises
RecordOf(cat, metar_text, metar_time, taf_time) ==
    [raised |-> cat = TypeError,
     rec |-> [category |-> cat,
              metar |-> metar_text,
              metar_time |-> to_zulu(metar_time),
              next_metar |-> next_hour(metar_time),
              taf_time |-> to_zulu(taf_time),
              next_taf |-> next_taf_time(taf_time)]]

Extracted(metar_xml, taf_xml) ==
    RecordOf(classify(extract_metar_text(metar_xml)),
             extract_metar_text(metar_xml),
             extract_value(metar_xml, "issue_time"),
             extract_value(taf_xml, "issue_time"))

WeatherRecord(metar_outcome, taf_outcome) ==
    Extracted(fetch(metar_outcome), fetch(taf_outcome))

\* d[k] = v on a dict kept as a sequence of items in insertion order
DictSet(d, k, v) ==
    IF \E i \in 1..Len(d) : d[i].k = k
    THEN [i \in 1..Len(d) |-> IF d[i].k = k THEN [k |-> k, v |-> v] ELSE d[i]]
    ELSE Append(d, [k |-> k, v |-> v])

DictHas(d, k) == \E i \in 1..Len(d) : d[i].k = k
DictGet(d, k) == d[CHOOSE i \in 1..Len(d) : d[i].k = k].v
DictKeys(d) == {d[i].k : i \in 1..Len(d)}

----------------------------------------------------------------------------
(* The cache file.  Its content is a sequence of tokens of JSON text; what *)
(* json.dump writes for a dict is "{", one token per item, "}".            *)

LBrace == [t |-> "{"]
RBrace == [t |-> "}"]
LBracket == [t |-> "["]
RBracket == [t |-> "]"]
JNumber == [t |-> "number"]
Missing == <<[t |-> "missing"]>>
Unreadable == <<[t |-> "unreadable"]>>

JNull == [t |-> "null", s |-> <<>>]
JString(s) == [t |-> "string", s |-> s]

\* json encoding of a record's fields: None becomes null
Encode(rec) == [f \in Fields |-> IF rec[f] = None THEN JNull ELSE JString(rec[f])]
Decode(obj) == [f \in Fields |-> IF obj[f].t = "null" THEN None ELSE obj[f].s]

Item(k, obj) == [t |-> "item", k |-> k, v |-> obj]

json_dump(d) ==
    <<LBrace>> \o [i \in 1..Len(d) |-> Item(d[i].k, Encode(d[i].v))] \o <<RBrace>>

RECURSIVE DictOfItems(_)
DictOfItems(items) ==
    IF items = <<>> THEN <<>>
    ELSE LET last == items[Len(items)]
         IN  DictSet(DictOfItems(SubSeq(items, 1, Len(items) - 1)),
                     last.k, Decode(last.v))

\* a plausible slip: a reader that keeps the items of an unterminated object
json_load_lenient(content) ==
    IF content = Missing \/ content = Unreadable \/ content = <<>>
    THEN [ok |-> FALSE, t |-> "error", items |-> <<>>]
    ELSE IF content[1] = LBrace
    THEN LET body == SelectSeq(Tail(content), LAMBDA x : x.t = "item")
         IN  [ok |-> TRUE, t |-> "dict", items |-> DictOfItems(body)]
    ELSE [ok |-> FALSE, t |-> "error", items |-> <<>>]

\* open(DATA_FILE) and json.load: the value read, or an exception (ok is FALSE)
json_load(content) ==
    IF content = Missing \/ content = Unreadable \/ content = <<>>
    THEN [ok |-> FALSE, t |-> "error", items |-> <<>>]
    ELSE IF /\ Len(content) >= 2
            /\ content[1] = LBrace
            /\ content[Len(content)] = RBrace
            /\ \A i \in 2..(Len(content) - 1) : content[i].t = "item"
    THEN [ok |-> TRUE, t |-> "dict",
          items |-> DictOfItems(SubSeq(content, 2, Len(content) - 1))]
    ELSE IF content = <<LBracket, RBracket>>
    THEN [ok |-> TRUE, t |-> "list", items |-> <<>>]
    ELSE IF content = <<JNumber>>
    THEN [ok |-> TRUE, t |-> "int", items |-> <<>>]
    ELSE [ok |-> FALSE, t |-> "error", items |-> <<>>]

----------------------------------------------------------------------------
(* app.py: the POST /weather handler.  A value of the request's JSON body  *)
(* is [t, v, items]: its type, its value when it is a str or a number, and *)
(* what iterating over it yields (the elements of a list, the characters   *)
(* of a str).                                                              *)

PyStr(code) == [t |-> "str", v |-> code, items |-> <<>>]
PyInt(n) == [t |-> "int", v |-> n, items |-> <<>>]
PyNull == [t |-> "null", v |-> "", items |-> <<>>]
PyList(items) == [t |-> "list", v |-> "", items |-> items]
PyChars(code, chars) == [t |-> "str", v |-> code, items |-> chars]

Placeholder == [f \in Fields |-> NA]

\* a plausible slip: the default returned for every code
all_data_get_default(all_data, icao) == Placeholder

\* all_data.get(icao, {...}) for a dict all_data and a hashable icao
all_data_get(all_data, icao) ==
    IF icao.t = "str" /\ DictHas(all_data, icao.v)
    THEN DictGet(all_data, icao.v)
    ELSE Placeholder

RECURSIVE BuildResponse(_, _)
BuildResponse(all_data, icaos) ==
    IF icaos = <<>> THEN <<>>
    ELSE LET icao == icaos[Len(icaos)]
         IN  DictSet(BuildResponse(all_data, SubSeq(icaos, 1, Len(icaos) - 1)),
                     icao, all_data_get(all_data, icao))

ServerError == [status |-> 500, body |-> <<>>]

\* lines 14-34; an exception that leaves the handler is Flask's status 500
Handle(all_data, icaos) ==
    IF icaos.t \notin {"list", "str"} THEN ServerError
    ELSE IF icaos.items # <<>> /\ all_data.t # "dict" THEN ServerError
    ELSE IF \E i \in 1..Len(icaos.items) : icaos.items[i].t = "list"
    THEN ServerError
    ELSE [status |-> 200, body |-> BuildResponse(all_data.items, icaos.items)]

\* lines 14-20: the value loaded, or {} when open or json.load raised
OrEmpty(loaded) ==
    IF loaded.ok THEN loaded ELSE [ok |-> TRUE, t |-> "dict", items |-> <<>>]

Respond(content, body) ==
    Handle(OrEmpty(json_load(content)),
           IF body.has THEN body.airports ELSE PyList(<<>>))

----------------------------------------------------------------------------
(* Values of the variables a specification does not use *)

NoRequest == [sent |-> FALSE]
NoResponse == [status |-> 0, body |-> <<>>]
NoOutput == [classify |-> <<>>, to_zulu |-> <<>>, next_hour |-> <<>>,
             next_taf_time |-> <<>>]

----------------------------------------------------------------------------
(* The pure functions of scheduler.py applied to bounded sets of inputs *)

MaxPieces == 3

\* METAR texts: up to MaxPieces groups, concatenated
MetarPieces == {OVC, BKN, <<"S", "C", "T">>, T002, T004, T005, T010, T020, T030,
                <<"2", "5", "0">>}

RECURSIVE TextsOf(_)
TextsOf(n) == IF n = 0 THEN {<<>>}
              ELSE LET shorter == TextsOf(n - 1)
                   IN  shorter \cup {t \o p : t \in shorter, p \in MetarPieces}

MetarTexts == TextsOf(MaxPieces)

Stamp(y, m, d, H, M, S) ==
    y \o <<"-">> \o m \o <<"-">> \o d \o <<"T">> \o H \o <<":">> \o M
      \o <<":">> \o S \o <<"Z">>

StampYears == {<<"2", "0", "2", "4">>, <<"2", "0", "2", "3">>, <<"9", "9", "9", "9">>}
StampMonths == {<<"0", "1">>, <<"0", "2">>, <<"1", "2">>, <<"2">>, <<"1", "3">>}
StampDays == {<<"0", "1">>, <<"2", "9">>, <<"3", "1">>}
StampHours == {Pad2(h) : h \in 0..23} \cup {<<"7">>, <<"2", "4">>}
StampMinutes == {<<"0", "0">>, <<"3", "0">>, <<"4", "5">>, <<"5", "9">>, <<"5">>,
                 <<"6", "0">>}
Sec00 == <<"0", "0">>
NotADate == <<"n", "o", "t", "-", "a", "-", "d", "a", "t", "e">>

TimeInputs ==
    {Stamp(y, m, d, H, M, Sec00) :
        y \in StampYears, m \in StampMonths, d \in StampDays,
        H \in StampHours, M \in StampMinutes}
    \cup {None, NA, <<>>, NotADate,
          Stamp(<<"2", "0", "2", "4">>, <<"0", "1">>, <<"0", "1">>, <<"0", "7">>,
                <<"0", "0">>, <<"6", "0">>),
          Stamp(<<"0", "0", "0", "0">>, <<"0", "1">>, <<"0", "1">>, <<"0", "7">>,
                <<"0", "0">>, Sec00),
          Stamp(<<"2", "0", "2", "4">>, <<"0", "1">>, <<"0", "1">>, <<"0", "7">>,
                <<"0", "0">>, Sec00) \o <<" ">>}

Unused ==
    /\ pc = "idle"
    /\ results = <<>>
    /\ file = Missing
    /\ completed = <<>>
    /\ request = NoRequest
    /\ response = NoResponse

InitClassify ==
    /\ input \in MetarTexts
    /\ called = {}
    /\ output = NoOutput
    /\ Unused

CallClassify ==
    /\ "classify" \notin called
    /\ called' = called \cup {"classify"}
    /\ output' = [output EXCEPT !.classify = classify(input)]
    /\ UNCHANGED <<input, pc, results, file, completed, request, response>>

SpecClassify == InitClassify /\ [][CallClassify]_vars

InitTime ==
    /\ input \in TimeInputs
    /\ called = {}
    /\ output = NoOutput
    /\ Unused

CallToZulu ==
    /\ "to_zulu" \notin called
    /\ called' = called \cup {"to_zulu"}
    /\ output' = [output EXCEPT !.to_zulu = to_zulu(input)]
    /\ UNCHANGED <<input, pc, results, file, completed, request, response>>

CallNextHour ==
    /\ "next_hour" \notin called
    /\ called' = called \cup {"next_hour"}
    /\ output' = [output EXCEPT !.next_hour = next_hour(input)]
    /\ UNCHANGED <<input, pc, results, file, completed, request, response>>

CallNextTaf ==
    /\ "next_taf_time" \notin called
    /\ called' = called \cup {"next_taf_time"}
    /\ output' = [output EXCEPT !.next_taf_time = next_taf_time(input)]
    /\ UNCHANGED <<input, pc, results, file, completed, request, response>>

NextTime == CallToZulu \/ CallNextHour \/ CallNextTaf

SpecTime == InitTime /\ [][NextTime]_vars

----------------------------------------------------------------------------
(* What the input text holds, read off its substrings *)

Has(tok) == \E i \in 1..Len(input), j \in 1..Len(input) : SubSeq(input, i, j) = tok
Ceiling == Has(OVC) \/ Has(BKN)
LowTok == Has(T002) \/ Has(T004) \/ Has(T005)

(* C6: classify is total on METAR texts, returns one of the four flight    *)
(* categories, and decides by fixed priority: LIFR when the text holds OVC *)
(* or BKN and one of 002/004/005; else IFR when it holds OVC or BKN and    *)
(* 010; else MVFR when it holds OVC or BKN and 020 or 030; else VFR.       *)
C6_ClassifyPriority ==
    "classify" \in called =>
        /\ output.classify \in {LIFR, IFR, MVFR, VFR}
        /\ (Ceiling /\ LowTok) => output.classify = LIFR
        /\ (Ceiling /\ ~LowTok /\ Has(T010)) => output.classify = IFR
        /\ (Ceiling /\ ~LowTok /\ ~Has(T010) /\ (Has(T020) \/ Has(T030)))
              => output.classify = MVFR
        /\ (~Ceiling \/ ~(LowTok \/ Has(T010) \/ Has(T020) \/ Has(T030)))
              => output.classify = VFR

\* a text holding a ceiling marker with both an LIFR and an IFR token
C6_Witness ==
    /\ "classify" \in called
    /\ Has(BKN) /\ Has(T004) /\ Has(T010)
    /\ output.classify = LIFR

----------------------------------------------------------------------------
(* Timestamps and boundaries, as the claims speak of them *)

Colon == <<":">>

\* the first of the hours 0, 6, 12, 18 after hour h, 0 standing for the next day
NextBoundary(h) == (((h \div 6) + 1) * 6) % 24

\* a timestamp of exactly the form YYYY-MM-DDTHH:MM:SSZ that names a real time
ValidStamp == Len(input) = 20 /\ strptime(input).ok

(* C5: for every valid timestamp, with hour h, next_taf_time               *)
(* returns HH:00 where HH is the first of 00/06/12/18 strictly later than  *)
(* the issue time, wrapping to 00 of the next day for h in 18..23.         *)
C5_NextTafBoundary ==
    ("next_taf_time" \in called /\ ValidStamp) =>
        output.next_taf_time
            = Pad2(NextBoundary(strptime(input).hour)) \o Colon \o <<"0", "0">>

(* C10: for every valid timestamp, with hour h and minute m,               *)
(* to_zulu returns h:m and next_hour returns ((h+1) mod 24):m, zero-padded;*)
(* for an input strptime rejects the three functions return N/A; to_zulu   *)
(* and next_hour of one input are both N/A or exactly one hour apart.      *)
C10_TimeFormatting ==
    LET dt == strptime(input)
    IN  /\ ("to_zulu" \in called /\ ValidStamp) =>
               output.to_zulu = Pad2(dt.hour) \o Colon \o Pad2(dt.minute)
        /\ ("next_hour" \in called /\ ValidStamp) =>
               output.next_hour
                   = Pad2((dt.hour + 1) % 24) \o Colon \o Pad2(dt.minute)
        /\ ~dt.ok =>
               /\ "to_zulu" \in called => output.to_zulu = NA
               /\ "next_hour" \in called => output.next_hour = NA
               /\ "next_taf_time" \in called => output.next_taf_time = NA
        /\ {"to_zulu", "next_hour"} \subseteq called =>
               (output.to_zulu = NA) = (output.next_hour = NA)

----------------------------------------------------------------------------
(* The poller's main loop and update_weather, one action per step that     *)
(* another process can observe: the loop body for one code, the truncating *)
(* open, each write to the file, the close, the sleep.                     *)

PollCode(metar_outcome, taf_outcome) ==
    /\ pc = "poll"
    /\ Len(results) < Len(ICAO_CODES)
    /\ LET r == WeatherRecord(metar_outcome, taf_outcome)
       IN  IF r.raised
           THEN pc' = "crashed" /\ UNCHANGED results
           ELSE /\ results' = DictSet(results, ICAO_CODES[Len(results) + 1], r.rec)
                /\ pc' = IF Len(results) + 1 = Len(ICAO_CODES) THEN "open" ELSE "poll"
    /\ UNCHANGED <<input, called, output, file, completed, request, response>>

\* open("data/latest.json", "w") creates or truncates the file
OpenFile ==
    /\ pc = "open"
    /\ file' = <<>>
    /\ pc' = "dump"
    /\ UNCHANGED <<input, called, output, results, completed, request, response>>

\* json.dump: the text reaches the file piece by piece; with the last
\* piece the Snapshot of this poll is completely written
WriteChunk ==
    /\ pc = "dump"
    /\ Len(file) < Len(json_dump(results))
    /\ file' = Append(file, json_dump(results)[Len(file) + 1])
    /\ completed' = IF file' = json_dump(results) THEN results ELSE completed
    /\ UNCHANGED <<input, called, output, pc, results, request, response>>

\* the with block ends and update_weather returns
CloseFile ==
    /\ pc = "dump"
    /\ file = json_dump(results)
    /\ pc' = "sleep"
    /\ UNCHANGED <<input, called, output, results, file, completed, request, response>>

\* time.sleep(60), then the next update_weather starts with results = {}
Sleep ==
    /\ pc = "sleep"
    /\ pc' = "poll"
    /\ results' = <<>>
    /\ UNCHANGED <<input, called, output, file, completed, request, response>>

\* POST /weather with JSON body `body`; `at` notes where the poller stood,
\* whether a poll had completed and whether the file was then cut off
weather(body) ==
    /\ request' = [sent |-> TRUE, body |-> body,
                   at |-> [pc |-> pc, polled |-> completed # <<>>,
                           partial |-> file # json_dump(completed)]]
    /\ response' = Respond(file, body)
    /\ UNCHANGED <<input, called, output, pc, results, file, completed>>

T2330 == Stamp(<<"2", "0", "2", "4">>, <<"0", "1">>, <<"0", "1">>, <<"2", "3">>,
               <<"3", "0">>, Sec00)
T1900 == Stamp(<<"2", "0", "2", "4">>, <<"0", "1">>, <<"0", "1">>, <<"1", "9">>,
               <<"0", "0">>, Sec00)
BKN004 == BKN \o T004

MetarOutcomes ==
    {NetError, Timeout, Reply(NotXml), Reply(Doc(Absent, Absent)),
     Reply(Doc(Absent, None)), Reply(Doc(None, T2330)), Reply(Doc(BKN004, T2330))}
TafOutcomes ==
    {NetError, Timeout, Reply(NotXml), Reply(Doc(Absent, None)),
     Reply(Doc(Absent, T1900))}

InitPoller ==
    /\ pc = "poll"
    /\ results = <<>>
    /\ file = Missing
    /\ completed = <<>>
    /\ request = NoRequest
    /\ response = NoResponse
    /\ input = <<>>
    /\ called = {}
    /\ output = NoOutput

NextPoller ==
    \/ \E m \in MetarOutcomes, t \in TafOutcomes : PollCode(m, t)
    \/ OpenFile
    \/ WriteChunk
    \/ CloseFile
    \/ Sleep

SpecPoller == InitPoller /\ [][NextPoller]_vars

----------------------------------------------------------------------------
(* The server alone, over the cache files it may find: a Snapshot written  *)
(* by a poller (of this or another list of codes), or no usable file.      *)

DegradedRecord == WeatherRecord(Timeout, Timeout).rec
RealRecord == WeatherRecord(Reply(Doc(BKN004, T2330)), Reply(Doc(Absent, T1900))).rec

Snapshots ==
    {<<>>}
    \cup {<<[k |-> "CYYZ", v |-> r]>> : r \in {DegradedRecord, RealRecord}}
    \cup {[i \in 1..Len(ICAO_CODES) |-> [k |-> ICAO_CODES[i], v |-> f[i]]] :
             f \in [1..Len(ICAO_CODES) -> {DegradedRecord, RealRecord}]}

\* no file, a file that cannot be opened, an empty or cut-off file, and
\* JSON text that is no object
BadFiles ==
    {Missing, Unreadable, <<>>,
     <<LBrace, Item("CYYZ", Encode(RealRecord))>>,
     <<LBracket, RBracket>>, <<JNumber>>}

CodeLists ==
    {<<>>, <<PyStr("CYYZ"), PyStr("ZZZZ")>>, <<PyStr("CYUL")>>,
     <<PyStr("CYYZ"), PyStr("CYUL"), PyStr("CYHZ")>>,
     <<PyStr("CYHZ"), PyStr("CYHZ")>>}

WellFormedBodies == {[has |-> TRUE, airports |-> PyList(l)] : l \in CodeLists}

\* the airports field missing, null, a number, a str, or a list holding a
\* number or a nested list
MalformedBodies ==
    {[has |-> FALSE, airports |-> PyNull],
     [has |-> TRUE, airports |-> PyNull],
     [has |-> TRUE, airports |-> PyInt("7")],
     [has |-> TRUE, airports |-> PyChars("CYYZ", <<PyStr("C"), PyStr("Y"),
                                                    PyStr("Y"), PyStr("Z")>>)],
     [has |-> TRUE, airports |-> PyList(<<PyInt("1")>>)],
     [has |-> TRUE, airports |-> PyList(<<PyList(<<>>)>>)]}

Bodies == WellFormedBodies \cup MalformedBodies

InitServer ==
    /\ pc = "idle"
    /\ results = <<>>
    /\ \/ completed \in Snapshots /\ file = json_dump(completed)
       \/ completed = <<>> /\ file \in BadFiles
    /\ request = NoRequest
    /\ response = NoResponse
    /\ input = <<>>
    /\ called = {}
    /\ output = NoOutput

NextServer == \E b \in Bodies : weather(b)

SpecServer == InitServer /\ [][NextServer]_vars

----------------------------------------------------------------------------
(* The poller and the server side by side, sharing the cache file *)

RaceMetar == {Timeout, Reply(Doc(BKN004, T2330))}
RaceTaf == {Timeout}

Init == InitPoller

Next ==
    \/ \E m \in RaceMetar, t \in RaceTaf : PollCode(m, t)
    \/ OpenFile
    \/ WriteChunk
    \/ CloseFile
    \/ Sleep
    \/ \E b \in WellFormedBodies : weather(b)

Spec == Init /\ [][Next]_vars

----------------------------------------------------------------------------
(* C1: when update_weather has written the cache file, whatever the fetch  *)
(* outcomes were, the written Snapshot is a complete JSON object with an   *)
(* item for every configured code, and each of the six fields of every     *)
(* item is a JSON string (a real value or N/A), never absent or null.      *)
C1_SnapshotComplete ==
    pc = "sleep" =>
        /\ Len(file) >= 2 /\ file[1] = LBrace /\ file[Len(file)] = RBrace
        /\ \A i \in 1..Len(ICAO_CODES) :
               \E j \in 2..(Len(file) - 1) :
                   file[j].t = "item" /\ file[j].k = ICAO_CODES[i]
        /\ \A j \in 2..(Len(file) - 1) :
               /\ file[j].t = "item"
               /\ DOMAIN file[j].v = Fields
               /\ \A f \in Fields : file[j].v[f].t = "string"

\* a written Snapshot holding a degraded record beside a real one
C1_Witness ==
    /\ pc = "sleep"
    /\ \E j \in 2..(Len(file) - 1) :
           file[j].v["metar"] = JString(NA) /\ file[j].v["taf_time"] = JString(NA)
    /\ \E j \in 2..(Len(file) - 1) : file[j].v["metar"] = JString(BKN004)

Failure(outcome) == outcome.kind \in {"error", "timeout"}

(* C7: when the METAR fetch of a code fails (network error or timeout),    *)
(* category, metar, metar_time and next_metar of that code's record are    *)
(* N/A, and when the TAF fetch fails, taf_time and next_taf are N/A.       *)
C7_FailureDegrades ==
    [][\A m \in MetarOutcomes, t \in TafOutcomes :
          (PollCode(m, t) /\ pc' # "crashed") =>
              /\ Failure(m) =>
                     /\ results'[Len(results')].v.category = NA
                     /\ results'[Len(results')].v.metar = NA
                     /\ results'[Len(results')].v.metar_time = NA
                     /\ results'[Len(results')].v.next_metar = NA
              /\ Failure(t) =>
                     /\ results'[Len(results')].v.taf_time = NA
                     /\ results'[Len(results')].v.next_taf = NA]_vars

(* C8: the poller never terminates on its own: whatever the fetches        *)
(* return, update_weather returns normally and the loop goes on.           *)
C8_PollerNeverStops == pc # "crashed"

----------------------------------------------------------------------------
(* What a response body must be for a list of requested codes and a        *)
(* Snapshot: exactly the requested keys, each with the Snapshot's record   *)
(* or, when the Snapshot has none, the placeholder.                        *)

Requested(body) == {body.airports.items[i] : i \in 1..Len(body.airports.items)}

Reflects(resp, body, snap) ==
    /\ DictKeys(resp) = Requested(body)
    /\ \A c \in Requested(body) :
           DictGet(resp, c) = IF \E i \in 1..Len(snap) : snap[i].k = c.v
                              THEN snap[CHOOSE i \in 1..Len(snap) : snap[i].k = c.v].v
                              ELSE Placeholder

(* C2: for a request listing airport codes and a cache file holding a      *)
(* Snapshot, the response has exactly the requested codes as keys, each    *)
(* with the record stored in the Snapshot, or the all-N/A placeholder when *)
(* the Snapshot has no record of the code.                                 *)
C2_ExactKeysAndRecords ==
    (request.sent /\ request.body \in WellFormedBodies /\ file = json_dump(completed))
        => /\ response.status = 200
           /\ Reflects(response.body, request.body, completed)

\* CYYZ and ZZZZ asked of a Snapshot that holds CYYZ alone
C2_Witness ==
    /\ request.sent
    /\ request.body = [has |-> TRUE, airports |-> PyList(<<PyStr("CYYZ"), PyStr("ZZZZ")>>)]
    /\ completed = <<[k |-> "CYYZ", v |-> RealRecord]>>
    /\ file = json_dump(completed)
    /\ response.status = 200
    /\ DictGet(response.body, PyStr("CYYZ")) = RealRecord
    /\ DictGet(response.body, PyStr("ZZZZ")) = Placeholder

(* C3: a request whose airports field is missing or malformed is treated   *)
(* as an empty list: the response is a success with the empty object.      *)
C3_MalformedIsEmpty ==
    (request.sent /\ request.body \in MalformedBodies)
        => response = [status |-> 200, body |-> <<>>]

(* C4: when the cache file is missing, unreadable or holds invalid content *)
(* the request still succeeds, with the placeholder for every requested    *)
(* code.                                                                   *)
C4_BadFileIsEmpty ==
    (request.sent /\ request.body \in WellFormedBodies /\ file \in BadFiles)
        => /\ response.status = 200
           /\ Reflects(response.body, request.body, <<>>)

(* C9: however the poller's write of the cache file interleaves with the   *)
(* requests, every response reflects the Snapshot of the latest completed  *)
(* poll as a whole, or none (the placeholder for every requested code).    *)
C9_LatestOrNone ==
    [][\A b \in WellFormedBodies :
          weather(b) =>
              /\ response'.status = 200
              /\ \/ Reflects(response'.body, b, completed)
                 \/ Reflects(response'.body, b, <<>>)]_vars

\* a request served while the poller was rewriting the file of an earlier
\* poll, answered with placeholders for all three configured codes
C9_Witness ==
    /\ request.sent
    /\ request.at.pc = "dump"
    /\ request.at.polled
    /\ request.at.partial
    /\ Len(request.body.airports.items) = Len(ICAO_CODES)
    /\ response.status = 200
    /\ Reflects(response.body, request.body, <<>>)

====
